---- MODULE Spec2Model ----
(***************************************************************************)
(* Model of the AI interview backend: ChatService (chat.service.ts),       *)
(* AudioGateway (audio.gateway.ts) and EvaluationService                   *)
(* (evaluation.service.ts).  Every handler is split at its await points:   *)
(* the part that runs synchronously when the inbound event is dispatched,  *)
(* and one continuation per provider call that returns or throws.          *)
(***************************************************************************)
EXTENDS Integers, Sequences, FiniteSets, TLC

(* ------------------------------ bounds --------------------------------- *)
\* handler invocations that reach a provider call
MaxRuns == 2
\* chunks an accumulator may hold
MaxChunks == 2
\* last value of the millisecond clock
MaxTime == 1
MaxReplyLen == 4
MaxProse == 1

(* --------------------------- input domains ----------------------------- *)
\* socket ids, in the order the transport hands them out
SocketIds == <<"s1", "s2">>
Sessions == {SocketIds[k] : k \in 1..Len(SocketIds)}
\* payloads of audio-data, as byte sequences
Chunks == {<<1, 2>>}
\* payloads of text-message
UserTexts == {"u1"}
\* texts returned by the transcription provider
Transcripts == {"v1"}
ErrMsgs == {"e1"}
\* content[0] of a chat-completion response
Contents == {[type |-> "text", text |-> "r1"],
             [type |-> "tool_use", text |-> "r1"]}
\* bytes returned by the speech provider
Mp3s == {<<7, 8>>}

(* ------------------------- Map<string, T> ------------------------------ *)
EmptyMap == <<>>

MapHas(m, k) == k \in DOMAIN m

MapSet(m, k, v) == [x \in (DOMAIN m) \cup {k} |-> IF x = k THEN v ELSE m[x]]

MapDelete(m, k) == [x \in (DOMAIN m) \ {k} |-> m[x]]

(* ----------------------------- state ----------------------------------- *)
VARIABLES
    conn,                 \* socket of each id: "fresh", "open" or "closed"
    audioBuffers,         \* AudioGateway.audioBuffers
    conversationHistory,  \* ChatService.conversationHistory
    evaluations,          \* EvaluationService.evaluations
    files,                \* temp directory: path -> bytes
    now,                  \* the value Date.now() returned last
    runs,                 \* handler invocations, in dispatch order
    chatLog,              \* calls of chat / startInterview per session id
    shown,                \* record of the last evaluation-complete per socket
    last                  \* the step taken last and what it emitted

vars == <<conn, audioBuffers, conversationHistory, evaluations, files, now,
          runs, chatLog, shown, last>>

\* Date.now(): a value of the clock, never earlier than the last one read
DateNow == now..MaxTime

NoResult == [ok |-> TRUE]

NoReturn == [status |-> "none"]

NoPath == <<>>

\* an invocation of a handler (or of evaluateCandidate): its locals, the
\* provider call it is suspended on (pc) and the names of the events it has
\* emitted so far; a finished invocation keeps no locals
Run(s, kind, pc) ==
    [sid |-> s, kind |-> kind, pc |-> pc, path |-> NoPath, data |-> <<>>,
     text |-> "", call |-> 0, req |-> <<>>, reply |-> "", events |-> <<>>]

Done(r) == Run("", "", "done")

\* a step: the event or continuation, its socket, the run it belongs to,
\* what the provider returned (res), the run as it was before the step
\* (was), the client.emit calls of the step in order (emits), and what
\* evaluateCandidate returned or threw (ret)
StepOf(ev, s, r, res, was, emits, ret) ==
    [ev |-> ev, sid |-> s, run |-> r, res |-> res, was |-> was,
     emits |-> emits, ret |-> ret]

Step(ev, s, r, emits) ==
    StepOf(ev, s, r, NoResult, [pc |-> "none"], emits, NoReturn)

EventNames(emits) == [k \in 1..Len(emits) |-> emits[k].ev]

(* --------------------------- ChatService ------------------------------- *)
Turn(role, content) == [role |-> role, content |-> content]

\* the fixed opening instruction of startInterview (Japanese text in the source)
OpeningText == "opening"

getHistory(clientId) ==
    IF MapHas(conversationHistory, clientId)
    THEN conversationHistory[clientId] ELSE <<>>

clearHistory(h, clientId) == MapDelete(h, clientId)

\* response.content[0].type === 'text' ? response.content[0].text : ''
assistantMessage(content) == IF content.type = "text" THEN content.text ELSE ""

\* chat() that starts every call from a fresh history
chatPushFresh(h, clientId, userMessage) ==
    MapSet(h, clientId, <<Turn("user", userMessage)>>)

\* chat() that overwrites a trailing user turn instead of appending
chatPushReplacing(h, clientId, userMessage) ==
    LET old == IF MapHas(h, clientId) THEN h[clientId] ELSE <<>>
    IN IF old # <<>> /\ old[Len(old)].role = "user"
       THEN MapSet(h, clientId,
                   [old EXCEPT ![Len(old)] = Turn("user", userMessage)])
       ELSE MapSet(h, clientId, Append(old, Turn("user", userMessage)))

\* chat() that pushes the user turn onto every stored history
chatPushAll(h, clientId, userMessage) ==
    [id \in DOMAIN h \cup {clientId} |->
        Append(IF MapHas(h, id) THEN h[id] ELSE <<>>,
               Turn("user", userMessage))]

\* chat(), up to the await: create the history if absent, push the user turn
chatPush(h, clientId, userMessage) ==
    MapSet(h, clientId,
           Append(IF MapHas(h, clientId) THEN h[clientId] ELSE <<>>,
                  Turn("user", userMessage)))

\* chat(), after the await: push the assistant turn
chatDone(h, clientId, msg) ==
    MapSet(h, clientId,
           Append(IF MapHas(h, clientId) THEN h[clientId] ELSE <<>>,
                  Turn("assistant", msg)))

\* startInterview(), up to the await: create the history if absent
startInit(h, clientId) ==
    IF MapHas(h, clientId) THEN h ELSE MapSet(h, clientId, <<>>)

\* startInterview() that records the reply without the opening
startDoneReplyOnly(h, clientId, msg) ==
    MapSet(h, clientId,
           Append(IF MapHas(h, clientId) THEN h[clientId] ELSE <<>>,
                  Turn("assistant", msg)))

\* startInterview(), after the await: push the opening and the reply
startDone(h, clientId, msg) ==
    MapSet(h, clientId,
           (IF MapHas(h, clientId) THEN h[clientId] ELSE <<>>)
               \o <<Turn("user", OpeningText), Turn("assistant", msg)>>)

Pending(log) == \E i \in 1..Len(log) : log[i].status = "pending"

LogEntry(op, user, log) ==
    [op |-> op, user |-> user, reply |-> "", status |-> "pending",
     seq |-> ~Pending(log)]

(* ------------------------------ Init ----------------------------------- *)
Init ==
    /\ conn = [s \in Sessions |-> "fresh"]
    /\ audioBuffers = EmptyMap
    /\ conversationHistory = EmptyMap
    /\ evaluations = EmptyMap
    /\ files = EmptyMap
    /\ now = 0
    /\ runs = <<>>
    /\ chatLog = [s \in Sessions |-> <<>>]
    /\ shown = [s \in Sessions |-> [found |-> FALSE, value |-> <<>>]]
    /\ last = Step("init", "", 0, <<>>)

(* ------------------------- EvaluationService --------------------------- *)
\* A grading reply is a sequence of tokens: "{", "}", ",", prose "x", and
\* object members: "s" ("scores": {...}), "s2" (other scores), "s0"
\* ("scores": null), "c" ("comments": {...}), "c0" ("comments": null).
ScoreTokens == {"s", "s2", "s0"}
CommentTokens == {"c", "c0"}
MemberTokens == ScoreTokens \cup CommentTokens

JsonNull == [null |-> TRUE]

ScoresA == [communication |-> 8, technical |-> 7, motivation |-> 9,
            problemSolving |-> 6, overall |-> 7]

ScoresB == [communication |-> 3, technical |-> 4, motivation |-> 2,
            problemSolving |-> 1, overall |-> 3]

CommentsA == [strengths |-> <<"st1", "st2">>, improvements |-> <<"im1">>,
              summary |-> "sum"]

MemberKey(tok) == IF tok \in ScoreTokens THEN "scores" ELSE "comments"

MemberVal(tok) ==
    CASE tok = "s" -> ScoresA
      [] tok = "s2" -> ScoresB
      [] tok = "c" -> CommentsA
      [] OTHER -> JsonNull

\* jsonMatch that starts at the last "{" instead of the first
jsonMatchLastOpen(text) ==
    LET opens == {i \in 1..Len(text) : text[i] = "{"}
        closes == {i \in 1..Len(text) : text[i] = "}"}
    IN IF opens = {} \/ closes = {}
       THEN [found |-> FALSE, str |-> <<>>]
       ELSE LET i == CHOOSE a \in opens : \A b \in opens : a >= b
                j == CHOOSE a \in closes : \A b \in closes : a >= b
            IN IF i < j
               THEN [found |-> TRUE, str |-> SubSeq(text, i, j)]
               ELSE [found |-> FALSE, str |-> <<>>]

\* evaluationText.match(/\{[\s\S]*\}/): first "{" through last "}"
jsonMatch(text) ==
    LET opens == {i \in 1..Len(text) : text[i] = "{"}
        closes == {i \in 1..Len(text) : text[i] = "}"}
    IN IF opens = {} \/ closes = {}
       THEN [found |-> FALSE, str |-> <<>>]
       ELSE LET i == CHOOSE a \in opens : \A b \in opens : a <= b
                j == CHOOSE a \in closes : \A b \in closes : a >= b
            IN IF i < j
               THEN [found |-> TRUE, str |-> SubSeq(text, i, j)]
               ELSE [found |-> FALSE, str |-> <<>>]

\* JSON.parse of a token sequence: "{" member ("," member)* "}" or "{" "}";
\* a repeated key keeps its last value
JSONparse(str) ==
    LET n == Len(str)
        wellFormed ==
            /\ n >= 2
            /\ str[1] = "{"
            /\ str[n] = "}"
            /\ \/ n = 2
               \/ /\ n % 2 = 1
                  /\ \A i \in 2..(n - 1) :
                        IF i % 2 = 0 THEN str[i] \in MemberTokens
                                     ELSE str[i] = ","
        keys == {MemberKey(str[i]) : i \in {k \in 2..(n - 1) : k % 2 = 0}}
        lastOf(key) == CHOOSE i \in 2..(n - 1) :
                          /\ i % 2 = 0 /\ MemberKey(str[i]) = key
                          /\ \A k \in 2..(n - 1) :
                                (k % 2 = 0 /\ MemberKey(str[k]) = key) => k <= i
    IN IF wellFormed
       THEN [ok |-> TRUE, obj |-> [key \in keys |-> MemberVal(str[lastOf(key)])]]
       ELSE [ok |-> FALSE, obj |-> <<>>]

\* !parsed.field is true of a missing field and of null
Falsy(obj, field) == field \notin DOMAIN obj \/ obj[field] = JsonNull

FallbackEvaluation ==
    [scores |-> [communication |-> 5, technical |-> 5, motivation |-> 5,
                 problemSolving |-> 5, overall |-> 5],
     comments |-> [strengths |-> <<"evaluation-data-generation-failed">>,
                   improvements |-> <<>>,
                   summary |-> "please-retry-evaluation"]]

\* parseEvaluation without the presence check of scores and comments
parseEvaluationUnchecked(evaluationText) ==
    LET m == jsonMatch(evaluationText)
        parsed == JSONparse(m.str)
    IN IF ~m.found THEN FallbackEvaluation
       ELSE IF ~parsed.ok THEN FallbackEvaluation
       ELSE parsed.obj

\* parseEvaluation that checks the presence of scores only
parseEvaluationScoresOnly(evaluationText) ==
    LET m == jsonMatch(evaluationText)
        parsed == JSONparse(m.str)
    IN IF ~m.found THEN FallbackEvaluation
       ELSE IF ~parsed.ok THEN FallbackEvaluation
       ELSE IF Falsy(parsed.obj, "scores") THEN FallbackEvaluation
       ELSE parsed.obj

parseEvaluation(evaluationText) ==
    LET m == jsonMatch(evaluationText)
        parsed == JSONparse(m.str)
    IN IF ~m.found THEN FallbackEvaluation
       ELSE IF ~parsed.ok THEN FallbackEvaluation
       ELSE IF Falsy(parsed.obj, "scores") \/ Falsy(parsed.obj, "comments")
            THEN FallbackEvaluation
       ELSE parsed.obj

\* new Date(t).toISOString()
toISOString(t) == [iso |-> t]

\* { ...evaluation, evaluatedAt: new Date().toISOString() }
stamp(evaluation, t) ==
    [k \in (DOMAIN evaluation) \cup {"evaluatedAt"} |->
        IF k = "evaluatedAt" THEN toISOString(t) ELSE evaluation[k]]

\* generateEvaluation: the transcript embedded in the grading prompt
conversationText(conversationHistory_) ==
    [i \in 1..Len(conversationHistory_) |->
        [label |-> IF conversationHistory_[i].role = "assistant"
                   THEN "interviewer" ELSE "candidate",
         content |-> conversationHistory_[i].content]]

\* message.content[0].type === 'text' ? message.content[0].text : ''
responseText(content) == IF content.type = "text" THEN content.text ELSE <<>>

\* getEvaluation that never finds a record
getEvaluationNull(clientId) == [found |-> FALSE, value |-> JsonNull]

getEvaluation(clientId) ==
    IF MapHas(evaluations, clientId)
    THEN [found |-> TRUE, value |-> evaluations[clientId]]
    ELSE [found |-> FALSE, value |-> JsonNull]

clearEvaluation(e, clientId) == MapDelete(e, clientId)

\* grading replies the provider may give
EvalReplies ==
    { <<"}", "x", "{">>,
      <<"{", "x", "}">>,
      <<"{", "s", "}">>,
      <<"x", "{", "s", ",", "c", "}", "x">> }

EvalContents ==
    {[type |-> "text", text |-> t] : t \in EvalReplies}
        \cup {[type |-> "tool_use", text |-> <<"{", "s2", ",", "c", "}">>]}

(* --------------------------- AudioGateway ------------------------------ *)
RECURSIVE BufferConcat(_)
\* Buffer.concat(buffer)
BufferConcat(list) ==
    IF list = <<>> THEN <<>> ELSE Head(list) \o BufferConcat(Tail(list))

\* audioBuffer.toString('base64')
Base64(bytes) == [b64 |-> bytes]

\* path.join(tempDir, `audio-${client.id}-${Date.now()}.webm`)
tempFilePath(clientId, t) == <<clientId, t>>

SetRun(i, r) == [runs EXCEPT ![i] = r]

CatchMessage(kind) ==
    CASE kind = "audio-complete" -> "Failed to process audio"
      [] kind = "text-message" -> "Failed to generate response"
      [] OTHER -> "Failed to start interview"

\* an ai-response held back until the audio is ready
aiResponseDeferred(msg) == <<>>

\* client.emit('ai-response', { message: aiResponse }), before textToSpeech
aiResponse(msg) == <<[ev |-> "ai-response", message |-> msg]>>

\* a processing-error that carries the handler's message in both fields
ProcessingErrorGeneric(kind, e) ==
    [ev |-> "processing-error", message |-> CatchMessage(kind),
     error |-> CatchMessage(kind)]

ProcessingError(kind, e) ==
    [ev |-> "processing-error", message |-> CatchMessage(kind), error |-> e]

\* outcomes of a provider call
TranscribeResults ==
    {[ok |-> TRUE, text |-> t] : t \in Transcripts}
        \cup {[ok |-> FALSE, error |-> e] : e \in ErrMsgs}

ChatResults ==
    {[ok |-> TRUE, content |-> c] : c \in Contents}
        \cup {[ok |-> FALSE, error |-> e] : e \in ErrMsgs}

SpeechResults ==
    {[ok |-> TRUE, mp3 |-> b] : b \in Mp3s}
        \cup {[ok |-> FALSE, error |-> e] : e \in ErrMsgs}

EvalResults ==
    {[ok |-> TRUE, content |-> c] : c \in EvalContents}
        \cup {[ok |-> FALSE, error |-> e] : e \in ErrMsgs}

\* the guard of audio-complete without the length test
noAudioDataAbsentOnly(buffers, clientId) == ~MapHas(buffers, clientId)

\* !buffer || buffer.length === 0
noAudioData(buffers, clientId) ==
    ~MapHas(buffers, clientId) \/ Len(buffers[clientId]) = 0

\* the guard of end-interview that never fires
historyIsEmptyNever(history) == FALSE

\* history.length === 0
historyIsEmpty(history) == Len(history) = 0

\* a connection that does not set up the accumulator
handleConnectionNoBuffer(s) ==
    /\ conn[s] = "fresh"
    /\ \A k \in 1..Len(SocketIds) :
          conn[SocketIds[k]] = "fresh" => \E j \in 1..k : SocketIds[j] = s
    /\ conn' = [conn EXCEPT ![s] = "open"]
    /\ last' = Step("connect", s, 0, <<>>)
    /\ UNCHANGED <<audioBuffers, conversationHistory, evaluations, files,
                   now, runs, chatLog, shown>>

handleConnection(s) ==
    /\ conn[s] = "fresh"
    /\ \A k \in 1..Len(SocketIds) :
          conn[SocketIds[k]] = "fresh" => \E j \in 1..k : SocketIds[j] = s
    /\ conn' = [conn EXCEPT ![s] = "open"]
    /\ audioBuffers' = MapSet(audioBuffers, s, <<>>)
    /\ last' = Step("connect", s, 0, <<>>)
    /\ UNCHANGED <<conversationHistory, evaluations, files, now, runs,
                   chatLog, shown>>

\* a disconnect that also drops the evaluation record of the session
handleDisconnectClearing(s) ==
    /\ conn[s] = "open"
    /\ conn' = [conn EXCEPT ![s] = "closed"]
    /\ audioBuffers' = MapDelete(audioBuffers, s)
    /\ evaluations' = clearEvaluation(evaluations, s)
    /\ last' = Step("disconnect", s, 0, <<>>)
    /\ UNCHANGED <<conversationHistory, files, now, runs, chatLog, shown>>

handleDisconnect(s) ==
    /\ conn[s] = "open"
    /\ conn' = [conn EXCEPT ![s] = "closed"]
    /\ audioBuffers' = MapDelete(audioBuffers, s)
    /\ last' = Step("disconnect", s, 0, <<>>)
    /\ UNCHANGED <<conversationHistory, evaluations, files, now, runs,
                   chatLog, shown>>

handleAudioData(s, payload) ==
    /\ conn[s] = "open"
    /\ MapHas(audioBuffers, s) => Len(audioBuffers[s]) < MaxChunks
    /\ audioBuffers' = IF MapHas(audioBuffers, s)
                       THEN MapSet(audioBuffers, s,
                                   Append(audioBuffers[s], payload))
                       ELSE audioBuffers
    /\ last' = Step("audio-data", s, 0, <<>>)
    /\ UNCHANGED <<conn, conversationHistory, evaluations, files, now, runs,
                   chatLog, shown>>

\* audio-complete, up to the first await
handleAudioComplete(s) ==
    /\ conn[s] = "open"
    /\ IF noAudioData(audioBuffers, s)
       THEN /\ last' = Step("audio-complete", s, 0, <<>>)
            /\ UNCHANGED <<files, runs, now>>
       ELSE /\ Len(runs) < MaxRuns
            /\ \E t \in DateNow :
                  LET audioData == BufferConcat(audioBuffers[s])
                      path == tempFilePath(s, t)
                  IN /\ now' = t
                     /\ files' = MapSet(files, path, audioData)
                     /\ runs' = Append(runs,
                           [Run(s, "audio-complete", "transcribe")
                               EXCEPT !.path = path, !.data = audioData])
            /\ last' = Step("audio-complete", s, Len(runs) + 1, <<>>)
    /\ UNCHANGED <<conn, audioBuffers, conversationHistory, evaluations,
                   chatLog, shown>>

\* the transcription call of run i returns or throws; on success the
\* handler emits transcription and enters chat() up to its await
transcribeReturn(i, res) ==
    /\ i \in 1..Len(runs)
    /\ runs[i].pc = "transcribe"
    /\ LET r == runs[i]
           s == r.sid
           emits == IF res.ok
                    THEN <<[ev |-> "transcription", text |-> res.text]>>
                    ELSE <<ProcessingError(r.kind, res.error)>>
       IN /\ IF res.ok
             THEN /\ conversationHistory' =
                         chatPush(conversationHistory, s, res.text)
                  /\ chatLog' = [chatLog EXCEPT ![s] =
                         Append(@, LogEntry("chat", res.text, @))]
                  /\ runs' = SetRun(i, [r EXCEPT !.pc = "chat",
                         !.data = <<>>,
                         !.text = res.text,
                         !.call = Len(chatLog[s]) + 1,
                         !.req = conversationHistory'[s],
                         !.events = @ \o EventNames(emits)])
             ELSE /\ runs' = SetRun(i, Done(r))
                  /\ UNCHANGED <<conversationHistory, chatLog>>
          /\ last' = StepOf("transcribe-return", s, i, res, r, emits, NoReturn)
    /\ UNCHANGED <<conn, audioBuffers, evaluations, files, now, shown>>

\* text-message, up to the await inside chat()
handleTextMessage(s, message) ==
    /\ conn[s] = "open"
    /\ Len(runs) < MaxRuns
    /\ conversationHistory' = chatPush(conversationHistory, s, message)
    /\ chatLog' = [chatLog EXCEPT ![s] =
           Append(@, LogEntry("chat", message, @))]
    /\ runs' = Append(runs, [Run(s, "text-message", "chat")
           EXCEPT !.text = message,
                  !.call = Len(chatLog[s]) + 1,
                  !.req = conversationHistory'[s]])
    /\ last' = Step("text-message", s, Len(runs) + 1, <<>>)
    /\ UNCHANGED <<conn, audioBuffers, evaluations, files, now, shown>>

\* the chat-completion call of chat() returns or throws
chatReturn(i, res) ==
    /\ i \in 1..Len(runs)
    /\ runs[i].pc = "chat"
    /\ LET r == runs[i]
           s == r.sid
           msg == assistantMessage(res.content)
           emits == IF res.ok
                    THEN aiResponse(msg)
                    ELSE <<ProcessingError(r.kind, res.error)>>
       IN /\ IF res.ok
             THEN /\ conversationHistory' =
                         chatDone(conversationHistory, s, msg)
                  /\ chatLog' = [chatLog EXCEPT ![s][r.call] =
                         [@ EXCEPT !.status = "ok", !.reply = msg]]
                  /\ runs' = SetRun(i, [r EXCEPT !.pc = "tts",
                         !.text = "", !.call = 0, !.req = <<>>,
                         !.reply = msg,
                         !.events = @ \o EventNames(emits)])
             ELSE /\ chatLog' =
                         [chatLog EXCEPT ![s][r.call].status = "failed"]
                  /\ runs' = SetRun(i, Done(r))
                  /\ UNCHANGED conversationHistory
          /\ last' = StepOf("chat-return", s, i, res, r, emits, NoReturn)
    /\ UNCHANGED <<conn, audioBuffers, evaluations, files, now, shown>>

\* start-interview, up to the await inside startInterview()
handleStartInterview(s) ==
    /\ conn[s] = "open"
    /\ Len(runs) < MaxRuns
    /\ conversationHistory' = startInit(conversationHistory, s)
    /\ chatLog' = [chatLog EXCEPT ![s] =
           Append(@, LogEntry("start", OpeningText, @))]
    /\ runs' = Append(runs, [Run(s, "start-interview", "start")
           EXCEPT !.text = OpeningText,
                  !.call = Len(chatLog[s]) + 1,
                  !.req = <<Turn("user", OpeningText)>>])
    /\ last' = Step("start-interview", s, Len(runs) + 1, <<>>)
    /\ UNCHANGED <<conn, audioBuffers, evaluations, files, now, shown>>

\* the chat-completion call of startInterview() returns or throws
startReturn(i, res) ==
    /\ i \in 1..Len(runs)
    /\ runs[i].pc = "start"
    /\ LET r == runs[i]
           s == r.sid
           msg == assistantMessage(res.content)
           emits == IF res.ok
                    THEN aiResponse(msg)
                    ELSE <<ProcessingError(r.kind, res.error)>>
       IN /\ IF res.ok
             THEN /\ conversationHistory' =
                         startDone(conversationHistory, s, msg)
                  /\ chatLog' = [chatLog EXCEPT ![s][r.call] =
                         [@ EXCEPT !.status = "ok", !.reply = msg]]
                  /\ runs' = SetRun(i, [r EXCEPT !.pc = "tts",
                         !.text = "", !.call = 0, !.req = <<>>,
                         !.reply = msg,
                         !.events = @ \o EventNames(emits)])
             ELSE /\ chatLog' =
                         [chatLog EXCEPT ![s][r.call].status = "failed"]
                  /\ runs' = SetRun(i, Done(r))
                  /\ UNCHANGED conversationHistory
          /\ last' = StepOf("start-return", s, i, res, r, emits, NoReturn)
    /\ UNCHANGED <<conn, audioBuffers, evaluations, files, now, shown>>

\* textToSpeech() returns or throws; an audio-complete run then unlinks its
\* file and resets the accumulator, still inside the try block
speechReturn(i, res) ==
    /\ i \in 1..Len(runs)
    /\ runs[i].pc = "tts"
    /\ LET r == runs[i]
           s == r.sid
           audio == [ev |-> "ai-audio", audio |-> Base64(res.mp3)]
       IN IF ~res.ok
          THEN /\ last' = StepOf("speech-return", s, i, res, r,
                      <<ProcessingError(r.kind, res.error)>>, NoReturn)
               /\ UNCHANGED <<audioBuffers, files>>
          ELSE IF r.kind # "audio-complete"
          THEN /\ last' = StepOf("speech-return", s, i, res, r, <<audio>>,
                                 NoReturn)
               /\ UNCHANGED <<audioBuffers, files>>
          ELSE IF MapHas(files, r.path)
          THEN /\ last' = StepOf("speech-return", s, i, res, r, <<audio>>,
                                 NoReturn)
               /\ files' = MapDelete(files, r.path)
               /\ audioBuffers' = MapSet(audioBuffers, s, <<>>)
          ELSE \* fs.unlinkSync throws ENOENT: the catch block runs
               /\ last' = StepOf("speech-return", s, i, res, r,
                      <<audio, ProcessingError(r.kind, "ENOENT")>>, NoReturn)
               /\ UNCHANGED <<audioBuffers, files>>
    /\ runs' = SetRun(i, Done(runs[i]))
    /\ UNCHANGED <<conn, conversationHistory, evaluations, now, chatLog,
                   shown>>

\* evaluateCandidate(), up to the await inside generateEvaluation()
evaluateCall(s, kind, history) ==
    [Run(s, kind, "evaluate") EXCEPT !.req = conversationText(history)]

\* end-interview, up to the await
handleEndInterview(s) ==
    /\ conn[s] = "open"
    /\ LET history == getHistory(s)
       IN IF historyIsEmpty(history)
          THEN /\ last' = Step("end-interview", s, 0,
                      <<[ev |-> "evaluation-error",
                         error |-> "no-conversation-history"]>>)
               /\ UNCHANGED runs
          ELSE /\ Len(runs) < MaxRuns
               /\ runs' = Append(runs,
                               evaluateCall(s, "end-interview", history))
               /\ last' = Step("end-interview", s, Len(runs) + 1, <<>>)
    /\ UNCHANGED <<conn, audioBuffers, conversationHistory, evaluations,
                   files, now, chatLog, shown>>

\* an evaluation that drops the stored record when its provider call fails
evaluateReturnDropping(i, res) ==
    /\ i \in 1..Len(runs)
    /\ runs[i].pc = "evaluate"
    /\ LET r == runs[i]
           s == r.sid
           gateway == r.kind = "end-interview"
       IN IF res.ok
          THEN \E t \in DateNow :
               LET result ==
                       stamp(parseEvaluation(responseText(res.content)), t)
               IN /\ now' = t
                  /\ evaluations' = MapSet(evaluations, s, result)
                  /\ shown' = IF gateway
                              THEN [shown EXCEPT ![s] =
                                       [found |-> TRUE, value |-> result]]
                              ELSE shown
                  /\ last' = StepOf("evaluate-return", s, i, res, r,
                         IF gateway
                         THEN <<[ev |-> "evaluation-complete",
                                 record |-> result]>>
                         ELSE <<>>,
                         [status |-> "returned", value |-> result])
          ELSE /\ last' = StepOf("evaluate-return", s, i, res, r,
                      IF gateway
                      THEN <<[ev |-> "evaluation-error",
                              error |-> "evaluation-generation-failed"]>>
                      ELSE <<>>,
                      [status |-> "rejected",
                       error |-> "evaluation-generation-failed"])
               /\ evaluations' = clearEvaluation(evaluations, s)
               /\ UNCHANGED <<shown, now>>
    /\ runs' = SetRun(i, Done(runs[i]))
    /\ UNCHANGED <<conn, audioBuffers, conversationHistory, files, chatLog>>

\* an end-interview that clears the history once the evaluation is sent
evaluateReturnClearing(i, res) ==
    /\ i \in 1..Len(runs)
    /\ runs[i].pc = "evaluate"
    /\ LET r == runs[i]
           s == r.sid
           gateway == r.kind = "end-interview"
       IN IF res.ok
          THEN \E t \in DateNow :
               LET result ==
                       stamp(parseEvaluation(responseText(res.content)), t)
               IN /\ now' = t
                  /\ evaluations' = MapSet(evaluations, s, result)
                  /\ shown' = IF gateway
                              THEN [shown EXCEPT ![s] =
                                       [found |-> TRUE, value |-> result]]
                              ELSE shown
                  /\ last' = StepOf("evaluate-return", s, i, res, r,
                         IF gateway
                         THEN <<[ev |-> "evaluation-complete",
                                 record |-> result]>>
                         ELSE <<>>,
                         [status |-> "returned", value |-> result])
                  /\ conversationHistory' = clearHistory(conversationHistory, s)
          ELSE /\ last' = StepOf("evaluate-return", s, i, res, r,
                      IF gateway
                      THEN <<[ev |-> "evaluation-error",
                              error |-> "evaluation-generation-failed"]>>
                      ELSE <<>>,
                      [status |-> "rejected",
                       error |-> "evaluation-generation-failed"])
               /\ UNCHANGED <<evaluations, shown, now, conversationHistory>>
    /\ runs' = SetRun(i, Done(runs[i]))
    /\ UNCHANGED <<conn, audioBuffers, files, chatLog>>

\* the chat-completion call of generateEvaluation() returns or throws;
\* evaluateCandidate parses, stamps, stores and returns, or rethrows a fixed
\* error, and the end-interview handler emits the outcome
evaluateReturn(i, res) ==
    /\ i \in 1..Len(runs)
    /\ runs[i].pc = "evaluate"
    /\ LET r == runs[i]
           s == r.sid
           gateway == r.kind = "end-interview"
       IN IF res.ok
          THEN \E t \in DateNow :
               LET result ==
                       stamp(parseEvaluation(responseText(res.content)), t)
               IN /\ now' = t
                  /\ evaluations' = MapSet(evaluations, s, result)
                  /\ shown' = IF gateway
                              THEN [shown EXCEPT ![s] =
                                       [found |-> TRUE, value |-> result]]
                              ELSE shown
                  /\ last' = StepOf("evaluate-return", s, i, res, r,
                         IF gateway
                         THEN <<[ev |-> "evaluation-complete",
                                 record |-> result]>>
                         ELSE <<>>,
                         [status |-> "returned", value |-> result])
          ELSE /\ last' = StepOf("evaluate-return", s, i, res, r,
                      IF gateway
                      THEN <<[ev |-> "evaluation-error",
                              error |-> "evaluation-generation-failed"]>>
                      ELSE <<>>,
                      [status |-> "rejected",
                       error |-> "evaluation-generation-failed"])
               /\ UNCHANGED <<evaluations, shown, now>>
    /\ runs' = SetRun(i, Done(runs[i]))
    /\ UNCHANGED <<conn, audioBuffers, conversationHistory, files, chatLog>>

handleGetEvaluation(s) ==
    /\ conn[s] = "open"
    /\ LET evaluation == getEvaluation(s)
       IN last' = Step("get-evaluation", s, 0,
              IF evaluation.found
              THEN <<[ev |-> "evaluation-result",
                      record |-> evaluation.value]>>
              ELSE <<[ev |-> "evaluation-error",
                      error |-> "evaluation-not-found"]>>)
    /\ UNCHANGED <<conn, audioBuffers, conversationHistory, evaluations,
                   files, now, runs, chatLog, shown>>

Next ==
    \/ \E s \in Sessions : handleConnection(s)
    \/ \E s \in Sessions : handleDisconnect(s)
    \/ \E s \in Sessions, c \in Chunks : handleAudioData(s, c)
    \/ \E s \in Sessions : handleAudioComplete(s)
    \/ \E i \in 1..MaxRuns, res \in TranscribeResults : transcribeReturn(i, res)
    \/ \E s \in Sessions, m \in UserTexts : handleTextMessage(s, m)
    \/ \E i \in 1..MaxRuns, res \in ChatResults : chatReturn(i, res)
    \/ \E s \in Sessions : handleStartInterview(s)
    \/ \E i \in 1..MaxRuns, res \in ChatResults : startReturn(i, res)
    \/ \E i \in 1..MaxRuns, res \in SpeechResults : speechReturn(i, res)
    \/ \E s \in Sessions : handleEndInterview(s)
    \/ \E i \in 1..MaxRuns, res \in EvalResults : evaluateReturn(i, res)
    \/ \E s \in Sessions : handleGetEvaluation(s)

Spec == Init /\ [][Next]_vars

(* ------------------- EvaluationService called directly ------------------ *)
\* histories handed to evaluateCandidate by a caller other than the gateway
ServiceHistories ==
    { <<>>,
      <<Turn("user", "u1")>>,
      <<Turn("assistant", "r1"), Turn("user", "u1")>> }

\* evaluateCandidate(clientId, conversationHistory), up to the await
evaluateCandidate(clientId, history) ==
    /\ Len(runs) < MaxRuns
    /\ runs' = Append(runs, evaluateCall(clientId, "evaluateCandidate", history))
    /\ last' = Step("evaluateCandidate", clientId, Len(runs) + 1, <<>>)
    /\ UNCHANGED <<conn, audioBuffers, conversationHistory, evaluations,
                   files, now, chatLog, shown>>

NextService ==
    \/ \E s \in Sessions, h \in ServiceHistories : evaluateCandidate(s, h)
    \/ \E i \in 1..MaxRuns, res \in EvalResults : evaluateReturn(i, res)

SpecService == Init /\ [][NextService]_vars

(* --------------- the audio pipeline fed distinct chunks ------------------ *)
\* chunks a recorder delivers: each carries bytes no other chunk carries
RecorderChunks == {<<1>>, <<2>>}

\* chunk c is neither waiting in the accumulator of s nor part of the input
\* of a run of s that is being transcribed
NotYetHeard(s, c) ==
    /\ MapHas(audioBuffers, s)
          => \A k \in 1..Len(audioBuffers[s]) : audioBuffers[s][k] # c
    /\ \A i \in 1..Len(runs) :
          runs[i].sid = s
              => \A k \in 1..Len(runs[i].data) : runs[i].data[k] # c[1]

\* mediaRecorder.ondataavailable: socket.emit('audio-data', event.data) with
\* a chunk of the recording that was not delivered before
ondataavailable(s, c) == NotYetHeard(s, c) /\ handleAudioData(s, c)

NextAudio ==
    \/ \E s \in Sessions : handleConnection(s)
    \/ \E s \in Sessions : handleDisconnect(s)
    \/ \E s \in Sessions, c \in RecorderChunks : ondataavailable(s, c)
    \/ \E s \in Sessions : handleAudioComplete(s)
    \/ \E i \in 1..MaxRuns, res \in TranscribeResults : transcribeReturn(i, res)
    \/ \E i \in 1..MaxRuns, res \in ChatResults : chatReturn(i, res)
    \/ \E i \in 1..MaxRuns, res \in SpeechResults : speechReturn(i, res)

SpecAudio == Init /\ [][NextAudio]_vars

(* ------------------------- the browser client --------------------------- *)
\* what the user may have typed into the text field
TextInputs == {"", " ", "u1"}

\* textInput.trim()
Trim(textInput) == IF textInput = " " THEN "" ELSE textInput

\* conversationHistory.length > 0 in the page: the page appends an entry
\* when it sends a text and when it receives transcription or ai-response
pageHistoryNonEmpty(s) ==
    \E k \in 1..Len(chatLog[s]) :
        chatLog[s][k].op = "chat" \/ chatLog[s][k].status = "ok"

\* sendTextMessage: returns early on blank input or without a socket, else
\* emits text-message
sendTextMessage(s, textInput) ==
    /\ Trim(textInput) # ""
    /\ conn[s] = "open"
    /\ handleTextMessage(s, textInput)

\* the start button, disabled once the page shows any conversation entry
startInterview(s) ==
    /\ conn[s] = "open"
    /\ ~pageHistoryNonEmpty(s)
    /\ handleStartInterview(s)

\* stopRecording emits audio-complete; the record button that leads to it
\* (startRecording, then stop) is enabled whenever the socket exists
stopRecording(s) ==
    /\ conn[s] = "open"
    /\ handleAudioComplete(s)

\* one page holds one socket
PageSockets == {SocketIds[1]}

NextClient ==
    \/ \E s \in PageSockets : handleConnection(s)
    \/ \E s \in PageSockets : handleDisconnect(s)
    \/ \E s \in PageSockets, c \in RecorderChunks : ondataavailable(s, c)
    \/ \E s \in PageSockets : stopRecording(s)
    \/ \E s \in PageSockets, m \in TextInputs : sendTextMessage(s, m)
    \/ \E s \in PageSockets : startInterview(s)
    \/ \E i \in 1..MaxRuns, res \in TranscribeResults : transcribeReturn(i, res)
    \/ \E i \in 1..MaxRuns, res \in ChatResults : chatReturn(i, res)
    \/ \E i \in 1..MaxRuns, res \in ChatResults : startReturn(i, res)
    \/ \E i \in 1..MaxRuns, res \in SpeechResults : speechReturn(i, res)

SpecClient == Init /\ [][NextClient]_vars

(* ------------- ending an interview that has already begun -------------- *)
\* the state after the first socket connected and one text exchange ran to
\* its end
InitEnd ==
    /\ conn = [s \in Sessions |->
                  IF s = SocketIds[1] THEN "open" ELSE "fresh"]
    /\ audioBuffers = MapSet(EmptyMap, SocketIds[1], <<>>)
    /\ conversationHistory =
          MapSet(EmptyMap, SocketIds[1],
                 <<Turn("user", "u1"), Turn("assistant", "r1")>>)
    /\ evaluations = EmptyMap
    /\ files = EmptyMap
    /\ now = 0
    /\ runs = <<>>
    /\ chatLog = [s \in Sessions |->
                     IF s = SocketIds[1]
                     THEN <<[op |-> "chat", user |-> "u1", reply |-> "r1",
                             status |-> "ok", seq |-> TRUE]>>
                     ELSE <<>>]
    /\ shown = [s \in Sessions |-> [found |-> FALSE, value |-> <<>>]]
    /\ last = Step("init", "", 0, <<>>)

NextEnd ==
    \/ \E s \in PageSockets : handleDisconnect(s)
    \/ \E s \in PageSockets, c \in Chunks : handleAudioData(s, c)
    \/ \E s \in PageSockets, m \in UserTexts : handleTextMessage(s, m)
    \/ \E i \in 1..MaxRuns, res \in ChatResults : chatReturn(i, res)
    \/ \E i \in 1..MaxRuns, res \in SpeechResults : speechReturn(i, res)
    \/ \E s \in PageSockets : handleEndInterview(s)
    \/ \E i \in 1..MaxRuns, res \in EvalResults : evaluateReturn(i, res)
    \/ \E s \in PageSockets : handleGetEvaluation(s)

SpecEnd == InitEnd /\ [][NextEnd]_vars

(* ------------------- parseEvaluation on its own -------------------------- *)
Tokens == {"{", "}", ",", "x"} \cup MemberTokens

ProseTokens == {"x", "{", "}"}

\* the sequences over set S of length at most n
SeqsUpTo(S, n) == UNION {[1..k -> S] : k \in 0..n}

Prose == SeqsUpTo(ProseTokens, MaxProse)

\* JSON.stringify of an object with a scores and a comments member, in
\* either order of the members
ScoresToken(v) ==
    CASE v = ScoresA -> "s" [] v = ScoresB -> "s2" [] OTHER -> "s0"

CommentsToken(v) == IF v = CommentsA THEN "c" ELSE "c0"

JSONstringify(data, scoresFirst) ==
    IF scoresFirst
    THEN <<"{", ScoresToken(data.scores), ",", CommentsToken(data.comments), "}">>
    ELSE <<"{", CommentsToken(data.comments), ",", ScoresToken(data.scores), "}">>

\* objects holding both a scores and a comments member
EvaluationData ==
    [scores : {ScoresA, ScoresB, JsonNull}, comments : {CommentsA, JsonNull}]

\* the grading replies parseEvaluation is applied to
ParseTexts ==
    SeqsUpTo(Tokens, MaxReplyLen)
        \cup {p \o JSONstringify(d, o) \o q :
                 p \in Prose, q \in Prose, d \in EvaluationData, o \in BOOLEAN}

InitParse ==
    /\ conn = [s \in Sessions |-> "fresh"]
    /\ audioBuffers = EmptyMap
    /\ conversationHistory = EmptyMap
    /\ evaluations = EmptyMap
    /\ files = EmptyMap
    /\ now = 0
    /\ runs = <<>>
    /\ chatLog = [s \in Sessions |-> <<>>]
    /\ shown = [s \in Sessions |-> [found |-> FALSE, value |-> <<>>]]
    /\ \E t \in ParseTexts :
          last = [ev |-> "reply", text |-> t, result |-> JsonNull]

\* const evaluation = this.parseEvaluation(evaluationText)
parseReply ==
    /\ last.ev = "reply"
    /\ last' = [ev |-> "parsed", text |-> last.text,
                result |-> parseEvaluation(last.text)]
    /\ UNCHANGED <<conn, audioBuffers, conversationHistory, evaluations,
                   files, now, runs, chatLog, shown>>

NextParse == parseReply

SpecParse == InitParse /\ [][NextParse]_vars

(* ------------------------------ claims --------------------------------- *)
\* the step taken last was a continuation of an audio-complete run
AudioStep ==
    /\ last.ev \in {"transcribe-return", "chat-return", "speech-return"}
    /\ last.was.kind = "audio-complete"

\* the step taken last finished an audio-complete run
AudioRunFinished == AudioStep /\ runs[last.run].pc = "done"

\* the events a run has emitted once the step taken last is over
EventsOfRun == last.was.events \o EventNames(last.emits)

\* C1: in the state right after a disconnect of s, s has no accumulator entry
\* and getHistory(s) is the empty sequence.
C1_DisconnectDestroysSession ==
    \A s \in Sessions :
        (last.ev = "disconnect" /\ last.sid = s)
            => (~MapHas(audioBuffers, s) /\ getHistory(s) = <<>>)

\* C2: once an audio-complete run has finished, on the ai-audio path and on
\* the processing-error path alike, the file it wrote no longer exists.
C2_TempFileRemoved ==
    AudioRunFinished => ~MapHas(files, last.was.path)

RECURSIVE TurnsOf(_)
\* the turns N successful chat calls leave: user text, then reply, per call
TurnsOf(log) ==
    IF log = <<>> THEN <<>>
    ELSE <<Turn("user", Head(log).user), Turn("assistant", Head(log).reply)>>
             \o TurnsOf(Tail(log))

\* every call on s so far was a chat call, issued after the one before it
\* had returned, and succeeded
OnlySequentialChats(s) ==
    \A k \in 1..Len(chatLog[s]) :
        /\ chatLog[s][k].op = "chat"
        /\ chatLog[s][k].status = "ok"
        /\ chatLog[s][k].seq

\* C3: after N chat calls on a session, issued one after another and all
\* successful, getHistory returns exactly the 2N turns user_1, assistant_1,
\* ..., user_N, assistant_N in call order.
C3_HistoryAfterChats ==
    \A s \in Sessions :
        OnlySequentialChats(s)
            => /\ getHistory(s) = TurnsOf(chatLog[s])
               /\ Len(getHistory(s)) = 2 * Len(chatLog[s])

C3_Witness ==
    \E s \in Sessions :
        /\ OnlySequentialChats(s)
        /\ Len(chatLog[s]) = 2
        /\ chatLog[s][1].user # chatLog[s][2].user
        /\ chatLog[s][1].reply # chatLog[s][2].reply

\* C4: evaluateCandidate called with an empty turn sequence always rejects:
\* when its provider call is over it has thrown, not returned a record.
C4_EmptyHistoryRejected ==
    (last.ev = "evaluate-return" /\ Len(last.was.req) = 0)
        => last.ret.status = "rejected"

\* C5: through the gateway, an end-interview handled while the history is
\* empty emits exactly one evaluation-error, starts no provider call and
\* leaves the store unchanged; and the store only ever changes when an
\* evaluation over a non-empty history returns.
C5_RecordOnlyFromNonEmptyHistory ==
    [][ /\ \A s \in Sessions :
              (last'.ev = "end-interview" /\ last'.sid = s
                  /\ getHistory(s) = <<>>)
                  => /\ EventNames(last'.emits) = <<"evaluation-error">>
                     /\ runs' = runs
                     /\ evaluations' = evaluations
        /\ evaluations' # evaluations
              => /\ last'.ev = "evaluate-return"
                 /\ Len(last'.was.req) >= 1 ]_vars

C5_Witness ==
    /\ last.ev = "end-interview"
    /\ EventNames(last.emits) = <<"evaluation-error">>
    /\ \E s \in Sessions : MapHas(evaluations, s)

\* C6: once an audio-complete run has finished, on the success path and on
\* the processing-error path alike, the session's accumulator is empty.
C6_RunReturnsToIdle ==
    AudioRunFinished
        => (MapHas(audioBuffers, last.sid) => audioBuffers[last.sid] = <<>>)

\* the event sequences a run may have emitted
OrderedRunEvents ==
    { <<>>,
      <<"transcription">>,
      <<"transcription", "ai-response">>,
      <<"transcription", "ai-response", "ai-audio">>,
      <<"processing-error">>,
      <<"transcription", "processing-error">>,
      <<"transcription", "ai-response", "processing-error">> }

\* C7: within an audio-complete run chat is invoked only after transcription
\* returned and synthesis only after chat returned; the run's events are a
\* prefix of (transcription, ai-response, ai-audio), optionally followed by
\* one processing-error, which never follows ai-audio.
C7_PipelineOrdered ==
    /\ \A i \in 1..Len(runs) :
          runs[i].kind = "audio-complete"
              => /\ runs[i].pc = "transcribe" => runs[i].events = <<>>
                 /\ runs[i].pc = "chat"
                       => runs[i].events = <<"transcription">>
                 /\ runs[i].pc = "tts"
                       => runs[i].events = <<"transcription", "ai-response">>
    /\ AudioStep => EventsOfRun \in OrderedRunEvents

\* C8: an audio-complete handled while the accumulator of the session is
\* empty or absent emits nothing, starts no run, writes no file and leaves
\* accumulator, history and evaluation store unchanged.
C8_EmptyAudioCompleteIsNoop ==
    [][ \A s \in Sessions :
            (last'.ev = "audio-complete" /\ last'.sid = s
                /\ (~MapHas(audioBuffers, s) \/ audioBuffers[s] = <<>>))
                => /\ last'.emits = <<>>
                   /\ UNCHANGED <<conn, audioBuffers, conversationHistory,
                                  evaluations, files, now, runs, chatLog,
                                  shown>> ]_vars

C8_Witness ==
    /\ last.ev = "audio-complete"
    /\ last.run = 0
    /\ Len(runs) > 0

\* C9: a get-evaluation for s emits evaluation-result carrying exactly the
\* record of the last evaluation-complete emitted to s, or evaluation-error
\* when there was none, and changes no state and starts no provider call.
C9_GetEvaluationIdempotent ==
    [][ \A s \in Sessions :
            (last'.ev = "get-evaluation" /\ last'.sid = s)
                => /\ last'.emits =
                         IF shown[s].found
                         THEN <<[ev |-> "evaluation-result",
                                 record |-> shown[s].value]>>
                         ELSE <<[ev |-> "evaluation-error",
                                 error |-> "evaluation-not-found"]>>
                   /\ UNCHANGED <<conn, audioBuffers, conversationHistory,
                                  evaluations, files, now, runs, chatLog,
                                  shown>> ]_vars

C9_Witness ==
    /\ last.ev = "get-evaluation"
    /\ shown[last.sid].found
    /\ EventNames(last.emits) = <<"evaluation-result">>

\* a grading reply that cannot be parsed: no brace block, a block that is
\* not valid structured data, or data without a scores or a comments field
Malformed(text) ==
    \/ ~jsonMatch(text).found
    \/ ~JSONparse(jsonMatch(text).str).ok
    \/ {"scores", "comments"} \ DOMAIN JSONparse(jsonMatch(text).str).obj # {}

\* the fallback record stamped with time t
StampedFallback(t) ==
    [scores |-> [communication |-> 5, technical |-> 5, motivation |-> 5,
                 problemSolving |-> 5, overall |-> 5],
     comments |-> [strengths |-> <<"evaluation-data-generation-failed">>,
                   improvements |-> <<>>,
                   summary |-> "please-retry-evaluation"],
     evaluatedAt |-> [iso |-> t]]

\* the step taken last was the successful return of the provider call of an
\* end-interview, with a reply that cannot be parsed
MalformedReplyReturned ==
    /\ last.ev = "evaluate-return"
    /\ last.was.kind = "end-interview"
    /\ last.res.ok
    /\ Malformed(responseText(last.res.content))

\* C10: when the provider call of an end-interview returns a reply that
\* cannot be parsed, the gateway emits evaluation-complete carrying the
\* fallback record, and that record is what is stored for the session.
C10_MalformedReplyFallsBack ==
    MalformedReplyReturned
        => /\ last.emits = <<[ev |-> "evaluation-complete",
                              record |-> StampedFallback(now)]>>
           /\ MapHas(evaluations, last.sid)
           /\ evaluations[last.sid] = StampedFallback(now)

C10_Witness ==
    /\ MalformedReplyReturned
    /\ jsonMatch(responseText(last.res.content)).found
    /\ JSONparse(jsonMatch(responseText(last.res.content)).str).ok

\* the fixed fallback record: every score 5 and the two fixed comments
FixedFallback ==
    [scores |-> [communication |-> 5, technical |-> 5, motivation |-> 5,
                 problemSolving |-> 5, overall |-> 5],
     comments |-> [strengths |-> <<"evaluation-data-generation-failed">>,
                   improvements |-> <<>>,
                   summary |-> "please-retry-evaluation"]]

\* the block from the first "{" through the last "}" of a reply, <<>> when
\* there is no "{" followed later by a "}"
BraceBlock(text) ==
    LET pairs == {ij \in (1..Len(text)) \X (1..Len(text)) :
                    /\ ij[1] < ij[2]
                    /\ text[ij[1]] = "{"
                    /\ text[ij[2]] = "}"
                    /\ \A k \in 1..Len(text) :
                          /\ text[k] = "{" => ij[1] <= k
                          /\ text[k] = "}" => k <= ij[2]}
    IN IF pairs = {} THEN <<>>
       ELSE LET ij == CHOOSE x \in pairs : TRUE IN SubSeq(text, ij[1], ij[2])

\* the three failure cases of parseEvaluation
NoBlock(text) == BraceBlock(text) = <<>>

InvalidBlock(text) == ~NoBlock(text) /\ ~JSONparse(BraceBlock(text)).ok

LacksField(text) ==
    /\ ~NoBlock(text)
    /\ JSONparse(BraceBlock(text)).ok
    /\ {"scores", "comments"} \ DOMAIN JSONparse(BraceBlock(text)).obj # {}

\* C11: parseEvaluation returns exactly the fixed fallback record when the
\* reply has no brace block, when the block is not valid structured data, and
\* when the parsed data lacks scores or comments; it returns in every case.
C11_FallbackOnFailure ==
    last.ev = "parsed"
        => /\ (NoBlock(last.text) \/ InvalidBlock(last.text)
                  \/ LacksField(last.text)) => last.result = FixedFallback
           /\ DOMAIN last.result = {"scores", "comments"}

C11_Witness ==
    /\ last.ev = "parsed"
    /\ LacksField(last.text)
    /\ "scores" \in DOMAIN JSONparse(BraceBlock(last.text)).obj
    /\ last.result = FixedFallback

\* the reply is prose p, then the object d written out, then prose q
Surrounded(text, p, d, q) ==
    /\ Len(text) = Len(p) + Len(q) + 5
    /\ SubSeq(text, 1, Len(p)) = p
    /\ SubSeq(text, Len(p) + 6, Len(text)) = q
    /\ \E o \in BOOLEAN : SubSeq(text, Len(p) + 1, Len(p) + 5) = JSONstringify(d, o)

\* C12 as stated: for every reply made of prose, an object holding scores
\* and comments, and prose, parseEvaluation returns that object unchanged.
C12_DataReturnedUnchanged ==
    last.ev = "parsed"
        => \A p \in Prose, q \in Prose, d \in EvaluationData :
              Surrounded(last.text, p, d, q) => last.result = d

\* C12 amended: for every reply made of prose without "{", an object whose
\* scores and comments are not null, and prose without "}", parseEvaluation
\* returns that object unchanged.
C12_DataReturnedUnchangedAmended ==
    last.ev = "parsed"
        => \A p \in Prose, q \in Prose, d \in EvaluationData :
              (/\ Surrounded(last.text, p, d, q)
               /\ \A k \in 1..Len(p) : p[k] # "{"
               /\ \A k \in 1..Len(q) : q[k] # "}"
               /\ d.scores # JsonNull
               /\ d.comments # JsonNull) => last.result = d

C12_Witness ==
    /\ last.ev = "parsed"
    /\ Surrounded(last.text, <<"}">>, [scores |-> ScoresB, comments |-> CommentsA],
                  <<"{">>)
    /\ last.result = [scores |-> ScoresB, comments |-> CommentsA]

\* C13: a startInterview for s that succeeds appends exactly the opening
\* user turn and the assistant reply to the end of the history of s, creating
\* it if absent and leaving the earlier turns as they were; one that fails,
\* and the dispatch before the provider returns, leave the history unchanged.
C13_StartInterviewRecordsExchange ==
    [][ \A s \in Sessions :
            /\ (last'.ev = "start-return" /\ last'.sid = s /\ last'.res.ok)
                  => getHistory(s)' =
                        getHistory(s) \o
                            <<Turn("user", OpeningText),
                              Turn("assistant", last'.emits[1].message)>>
            /\ (last'.ev = "start-return" /\ last'.sid = s /\ ~last'.res.ok)
                  => getHistory(s)' = getHistory(s)
            /\ (last'.ev = "start-interview" /\ last'.sid = s)
                  => getHistory(s)' = getHistory(s) ]_vars

C13_Witness ==
    /\ last.ev = "start-return"
    /\ last.res.ok
    /\ Len(getHistory(last.sid)) > 2
    /\ getHistory(last.sid)[Len(getHistory(last.sid)) - 1] =
          Turn("user", OpeningText)

\* the step taken last was a provider call of a gateway run throwing
ProviderCallFailed ==
    /\ last.ev \in {"transcribe-return", "chat-return", "start-return",
                     "speech-return", "evaluate-return"}
    /\ ~last.res.ok

\* C14 as stated: when a provider call fails, the one event emitted to the
\* client (processing-error, or evaluation-error for an evaluation) carries
\* the message of the provider's error.
C14_FailureCarriesProviderMessage ==
    ProviderCallFailed
        => /\ EventNames(last.emits) =
                 <<IF last.ev = "evaluate-return"
                   THEN "evaluation-error" ELSE "processing-error">>
           /\ last.emits[1].error = last.res.error

\* C14 amended: when transcription, chat or synthesis fails, the one
\* processing-error emitted carries the message of the provider's error; when
\* the provider call of an evaluation fails, the one evaluation-error emitted
\* carries the fixed failure text and not the provider's message.
C14_FailureSurfaced ==
    ProviderCallFailed
        => IF last.ev = "evaluate-return"
           THEN last.emits = <<[ev |-> "evaluation-error",
                                error |-> "evaluation-generation-failed"]>>
           ELSE /\ EventNames(last.emits) = <<"processing-error">>
                /\ last.emits[1].error = last.res.error
                /\ last.emits[1].error \in ErrMsgs

C14_Witness ==
    /\ ProviderCallFailed
    /\ last.ev = "speech-return"
    /\ last.was.kind = "audio-complete"
    /\ last.emits[1].error = last.res.error

\* C15: once an evaluation record is stored for s, no gateway step removes
\* it: getEvaluation(s) finds a record in every later state, also after the
\* disconnect of s.
C15_EvaluationSurvives ==
    [][ \A s \in Sessions :
            MapHas(evaluations, s)
                => /\ MapHas(evaluations', s)
                   /\ getEvaluation(s)'.found ]_vars

C15_Witness ==
    /\ last.ev = "disconnect"
    /\ conn[last.sid] = "closed"
    /\ getEvaluation(last.sid).found

\* C16: right after the connection of an identifier that was never used,
\* that session has an empty history, an empty accumulator and no evaluation
\* record, whatever the sessions with other identifiers did before.
C16_FreshSessionIsEmpty ==
    last.ev = "connect"
        => /\ getHistory(last.sid) = <<>>
           /\ MapHas(audioBuffers, last.sid)
           /\ audioBuffers[last.sid] = <<>>
           /\ ~getEvaluation(last.sid).found

C16_Witness ==
    /\ last.ev = "connect"
    /\ \E o \in Sessions \ {last.sid} :
          /\ conn[o] = "closed"
          /\ getHistory(o) # <<>>
          /\ getEvaluation(o).found

\* C17: a step of session a leaves the accumulator, the history and the
\* evaluation record of every other session b as they were, and emits nothing
\* to b: the runs of b and what b was shown are unchanged by it.
C17_SessionsIndependent ==
    [][ \A a \in Sessions : \A b \in Sessions \ {a} :
            last'.sid = a
                => /\ MapHas(audioBuffers', b) = MapHas(audioBuffers, b)
                   /\ MapHas(audioBuffers, b)
                         => audioBuffers'[b] = audioBuffers[b]
                   /\ getHistory(b)' = getHistory(b)
                   /\ getEvaluation(b)' = getEvaluation(b)
                   /\ shown'[b] = shown[b]
                   /\ \A i \in 1..Len(runs) :
                         runs[i].sid = b => runs'[i] = runs[i] ]_vars

C17_Witness ==
    /\ last.sid = "s1"
    /\ last.ev = "chat-return"
    /\ last.res.ok
    /\ getHistory("s2") # <<>>
    /\ \E i \in 1..Len(runs) : runs[i].sid = "s2" /\ runs[i].pc = "chat"

\* the step taken last issued the chat call of a run of s while the chat
\* call of another run of s was still in flight
SecondChatDispatched ==
    /\ last.ev \in {"text-message", "transcribe-return"}
    /\ last.run \in 1..Len(runs)
    /\ runs[last.run].pc = "chat"
    /\ \E j \in 1..Len(runs) :
          j # last.run /\ runs[j].sid = last.sid /\ runs[j].pc = "chat"

\* C18: when the chat call of a second run of s is issued while that of a
\* prior run of s is in flight, the request of the second run is the whole
\* history of s, it ends with the second user turn, it holds two adjacent
\* user turns, and it holds the user turn of the run still in flight.
C18_ConcurrentChatsInterleave ==
    SecondChatDispatched
        => LET req == runs[last.run].req
               n == Len(req)
           IN /\ req = getHistory(last.sid)
              /\ n >= 2
              /\ req[n] = Turn("user", runs[last.run].text)
              /\ \E p \in 1..(n - 1) :
                    req[p].role = "user" /\ req[p + 1].role = "user"
              /\ \A j \in 1..Len(runs) :
                    (j # last.run /\ runs[j].sid = last.sid
                        /\ runs[j].pc = "chat")
                        => \E p \in 1..(n - 1) :
                              req[p] = Turn("user", runs[j].text)

C18_Witness ==
    /\ SecondChatDispatched
    /\ last.ev = "text-message"
    /\ getHistory(last.sid) = <<Turn("user", "v1"), Turn("user", "u1")>>

\* C19: once s has disconnected, no later step re-creates the accumulator
\* entry of s or changes the history of s: a provider call that returns after
\* the disconnect leaves both as the disconnect left them.
C19_DisconnectedStaysDestroyed ==
    [][ \A s \in Sessions :
            conn[s] = "closed"
                => /\ ~MapHas(audioBuffers, s) => ~MapHas(audioBuffers', s)
                   /\ getHistory(s)' = getHistory(s) ]_vars

\* C20: a run whose synthesis call is in flight has ai-response as the last
\* event it emitted; and when the synthesis call fails, the events of the run
\* are (transcription for an audio run, then) ai-response followed by one
\* processing-error, with no ai-audio.
C20_ResponseBeforeSynthesis ==
    /\ \A i \in 1..Len(runs) :
          runs[i].pc = "tts"
              => /\ runs[i].events # <<>>
                 /\ runs[i].events[Len(runs[i].events)] = "ai-response"
    /\ (last.ev = "speech-return" /\ ~last.res.ok)
          => /\ last.was.kind \in {"start-interview", "text-message",
                                    "audio-complete"}
             /\ EventsOfRun =
                   (IF last.was.kind = "audio-complete"
                    THEN <<"transcription">> ELSE <<>>)
                       \o <<"ai-response", "processing-error">>

C20_Witness ==
    /\ last.ev = "speech-return"
    /\ ~last.res.ok
    /\ last.was.kind = "start-interview"
    /\ EventsOfRun = <<"ai-response", "processing-error">>

\* no chat or startInterview call of session s is in flight
Quiescent(s) ==
    \A i \in 1..Len(runs) :
        runs[i].sid = s => runs[i].pc \notin {"chat", "start"}

\* h has even length and alternates user, assistant, ... from a user turn
Alternates(h) ==
    /\ Len(h) % 2 = 0
    /\ \A k \in 1..Len(h) :
          h[k].role = IF k % 2 = 1 THEN "user" ELSE "assistant"

\* C21: whenever no chat or startInterview call of s is in flight, the
\* history of s has even length and alternates user and assistant turns
\* starting with a user turn.
C21_QuiescentHistoryWellFormed ==
    \A s \in Sessions : Quiescent(s) => Alternates(getHistory(s))

\* C22: with every chunk delivered once, no chunk is handed to the
\* transcription provider by two runs: two runs of one session that are
\* being transcribed have no byte of their inputs in common.
C22_ChunksTranscribedOnce ==
    \A i \in 1..Len(runs) : \A j \in 1..Len(runs) :
        (/\ i # j
         /\ runs[i].pc = "transcribe"
         /\ runs[j].pc = "transcribe"
         /\ runs[i].sid = runs[j].sid)
            => \A k \in 1..Len(runs[i].data) :
                  \A l \in 1..Len(runs[j].data) :
                      runs[i].data[k] # runs[j].data[l]

\* C23: no two audio-complete runs that have not finished use the same
\* temporary file path, whether they belong to one session or to two.
C23_TempFileNotShared ==
    \A i \in 1..Len(runs) : \A j \in 1..Len(runs) :
        (/\ i # j
         /\ runs[i].kind = "audio-complete"
         /\ runs[j].kind = "audio-complete")
            => runs[i].path # runs[j].path

\* how many of the events are among names
CountOf(events, names) ==
    Cardinality({k \in 1..Len(events) : events[k] \in names})

\* C24 (its safety half): a run of audio-complete, text-message or
\* start-interview that has finished has emitted exactly one of ai-audio and
\* processing-error, one still in flight has emitted neither, and the return
\* of an end-interview emits exactly one of evaluation-complete and
\* evaluation-error.
C24_OneTerminalReply ==
    /\ (/\ last.ev \in {"transcribe-return", "chat-return", "start-return",
                         "speech-return"}
         /\ runs[last.run].pc = "done")
          => CountOf(EventsOfRun, {"ai-audio", "processing-error"}) = 1
    /\ \A i \in 1..Len(runs) :
          runs[i].pc \in {"transcribe", "chat", "start", "tts"}
              => CountOf(runs[i].events, {"ai-audio", "processing-error"}) = 0
    /\ (last.ev = "evaluate-return" /\ last.was.kind = "end-interview")
          => CountOf(EventNames(last.emits),
                     {"evaluation-complete", "evaluation-error"}) = 1

\* C25: when the page has just emitted a text-message or an audio-complete
\* for its session, no pipeline run that an earlier text-message,
\* audio-complete or start-interview of that session started is in flight.
C25_ClientWaitsForReply ==
    last.ev \in {"text-message", "audio-complete"}
        => \A i \in 1..Len(runs) :
              (i # last.run /\ runs[i].sid = last.sid)
                  => runs[i].pc \notin {"transcribe", "chat", "start", "tts"}

\* C26: handling end-interview for s, at its dispatch and at the return of
\* its provider call, whether that ends in evaluation-complete or in
\* evaluation-error, leaves the histories and the accumulators as they were;
\* the evaluation started is of the whole history s has at that time; and a
\* completed evaluation makes its record the stored one, replacing any
\* earlier record.
C26_EndInterviewKeepsConversation ==
    [][ \A s \in Sessions :
            (last'.ev \in {"end-interview", "evaluate-return"}
                /\ last'.sid = s)
                => /\ conversationHistory' = conversationHistory
                   /\ audioBuffers' = audioBuffers
                   /\ (last'.ev = "end-interview" /\ last'.run # 0)
                         => LET req == runs'[last'.run].req
                                h == getHistory(s)
                            IN /\ Len(req) = Len(h)
                               /\ \A k \in 1..Len(h) :
                                     req[k].content = h[k].content
                   /\ (last'.ev = "evaluate-return" /\ last'.res.ok)
                         => getEvaluation(s)' =
                               [found |-> TRUE,
                                value |-> last'.emits[1].record] ]_vars

C26_Witness ==
    /\ last.ev = "evaluate-return"
    /\ last.res.ok
    /\ last.was.kind = "end-interview"
    /\ Len(last.was.req) = 3
    /\ getHistory(last.sid) =
          <<Turn("user", "u1"), Turn("assistant", "r1"), Turn("user", "u1")>>
    /\ audioBuffers[last.sid] # <<>>

\* C27: an evaluation of s whose provider call fails leaves what
\* getEvaluation(s) finds, a record or none, as it was; what getEvaluation(s)
\* finds changes only at the successful return of an evaluation of s, and
\* then it is the record that evaluation returned; and get-evaluation
\* reports exactly what getEvaluation(s) finds.
C27_FailedEvaluationKeepsStore ==
    [][ \A s \in Sessions :
            /\ (last'.ev = "evaluate-return" /\ last'.sid = s
                    /\ ~last'.res.ok)
                  => getEvaluation(s)' = getEvaluation(s)
            /\ getEvaluation(s)' # getEvaluation(s)
                  => /\ last'.ev = "evaluate-return"
                     /\ last'.sid = s
                     /\ last'.res.ok
            /\ (last'.ev = "evaluate-return" /\ last'.sid = s
                    /\ last'.res.ok)
                  => getEvaluation(s)' =
                        [found |-> TRUE, value |-> last'.ret.value]
            /\ (last'.ev = "get-evaluation" /\ last'.sid = s)
                  => EventNames(last'.emits) =
                        <<IF getEvaluation(s).found
                          THEN "evaluation-result" ELSE "evaluation-error">>
      ]_vars

C27_Witness ==
    /\ last.ev = "evaluate-return"
    /\ ~last.res.ok
    /\ last.was.kind = "end-interview"
    /\ getEvaluation(last.sid).found
    /\ getEvaluation(last.sid).value = shown[last.sid].value
====
